---- MODULE Spec2Model ----
(***************************************************************************)
(* Model of the two agent-based simulations of chap09: Schelling's         *)
(* segregation model (class Schelling) and the Sugarscape (classes         *)
(* Sugarscape and Agent).                                                  *)
(*                                                                         *)
(* The notebook's floats are modelled exactly: a fraction is a pair        *)
(* <<a, b>> meaning a/b, and <<0, 0>> is NaN.  Random draws are            *)
(* nondeterministic choices over the values the draw can produce.  A draw  *)
(* of np.random.uniform is low + (high - low) * u: u is followed at the    *)
(* multiples of 2^-ResolutionBits (a bound of the model) and at the        *)
(* largest u, where the doubles of the code are computed without rounding  *)
(* or round to high.  The simulations are run with parameters whose        *)
(* intervals are single points; Agent.step is followed over an interval of *)
(* metabolisms (AgentLifeSpec).                                            *)
(*                                                                         *)
(* Besides the two simulations (SchellingSpec, SugarscapeSpec) there are   *)
(* specifications of single calls on drawn arguments: the constructor      *)
(* (ConstructionSpec, CapacitySpec), Agent.step (AgentStepSpec), harvest   *)
(* (HarvestSpec), step() called once more than MaxTicks times without      *)
(* replacement (StepsSpec), and the constructor followed by step() calls   *)
(* together with Agent.step (MovementSpec).                                *)
(***************************************************************************)
EXTENDS Integers, Sequences, FiniteSets, TLC

VARIABLES
    \* ---- Schelling ----
    array,          \* self.array: cell -> 0 (empty), 1 (red), 2 (blue)
    p,              \* self.p, a fraction <<a, b>>
    pc,             \* position inside Schelling.step: "idle", "loop", "raised"
    frac_same,      \* step's local frac_same (the survey of this tick)
    unhappy_locs,   \* step's local unhappy_locs; positions < k are shuffled
    empty_locs,     \* step's local empty_locs
    num_empty,      \* step's local num_empty
    k,              \* index of the next source in the loop over unhappy_locs
    ret,            \* value returned by the last completed step()
    err,            \* exception that ended the last step(), "" if none
    array0,         \* history: self.array when the current/last step() was called
    \* ---- Sugarscape ----
    capacity,       \* self.capacity: cell -> capacity
    sugar_array,    \* self.array of the Sugarscape: cell -> sugar level
    grow_rate,      \* params['grow_rate']
    replace,        \* params['replace']
    agents,         \* self.agents: the list of Agent objects (by identity)
    agent_obj,      \* the live Agent objects: identity -> attributes
    occupied,       \* self.occupied
    agent_count_seq,\* self.agent_count_seq
    spc,            \* position inside Sugarscape.step: "idle", "loop", "add_agent"
    random_order,   \* step's local random_order; positions < idx are drawn
    idx,            \* index of the next agent in the loop over random_order
    sret,           \* value returned by the last completed step(), -1 if none
    processed,      \* history: identities the loop of this tick has processed
    count0,         \* history: len(self.agents) when the current/last step() began
    \* ---- a single call of one operation ----
    call,           \* the operation called and its arguments
    result          \* what the call returned or raised

schVars == <<array, p, pc, frac_same, unhappy_locs, empty_locs, num_empty, k,
             ret, err, array0>>

sugVars == <<capacity, sugar_array, grow_rate, replace, agents, agent_obj,
             occupied, agent_count_seq, spc, random_order, idx, sret, processed,
             count0>>

callVars == <<call, result>>

vars == <<schVars, sugVars, callVars>>

-----------------------------------------------------------------------------
(* Bounds *)

\* Side of the square grid (the constructor's n).
N == 2

\* Largest number of step() calls of a Sugarscape followed.
MaxTicks == 2

\* The random float u of [0, 1) behind a draw of np.random.uniform is followed
\* at the multiples of 2^-ResolutionBits (and at the largest u, 1 - 2^-53).
ResolutionBits == 3

-----------------------------------------------------------------------------
(* Generic helpers *)

Range(s) == {s[x] : x \in DOMAIN s}

\* s with the elements at positions x and y exchanged.
Swap(s, x, y) == [s EXCEPT ![x] = s[y], ![y] = s[x]]

RECURSIVE SumOver(_, _)
SumOver(f, S) ==
    IF S = {} THEN 0
    ELSE LET x == CHOOSE y \in S : TRUE
         IN  f[x] + SumOver(f, S \ {x})

-----------------------------------------------------------------------------
(* Schelling *)

Cells == (0 .. N-1) \X (0 .. N-1)

\* Row-major enumeration of the grid, the order of np.nonzero.
RowMajor == [x \in 1 .. N*N |-> <<(x-1) \div N, (x-1) % N>>]

\* locs_where(condition): the cells where the condition holds, row-major.
locs_where(cond) == SelectSeq(RowMajor, LAMBDA c : cond[c])

\* Schelling.kernel: the eight offsets with weight 1 (the centre has weight 0).
kernel == {<<di, dj>> \in (-1 .. 1) \X (-1 .. 1) : <<di, dj>> # <<0, 0>>}

\* Mutant of Wrap: the index is clamped to the edge instead of wrapped.
Wrap_clamped(x) == IF x < 0 THEN 0 ELSE IF x >= N THEN N - 1 ELSE x

\* boundary='wrap': an index one past an edge is the opposite edge.
Wrap(x) == IF x < 0 THEN N + x ELSE IF x >= N THEN x - N ELSE x

\* correlate2d(mask, kernel, mode='same', boundary='wrap') at cell c.
correlate2d(mask, c) ==
    Cardinality({d \in kernel : mask[<<Wrap(c[1] + d[1]), Wrap(c[2] + d[2])>>]})

NaN == <<0, 0>>

\* No step() has returned yet, or one is running.
NoRet == <<-1, 1>>
IsNaN(f) == f[2] = 0

\* Mutant of FracLess: <= instead of <.
FracLess_or_equal(f, g) == ~IsNaN(f) /\ ~IsNaN(g) /\ f[1] * g[2] <= g[1] * f[2]

\* f < g for floats written as fractions; False when f or g is NaN.
FracLess(f, g) == ~IsNaN(f) /\ ~IsNaN(g) /\ f[1] * g[2] < g[1] * f[2]

\* Mutant of frac_of: the assignment of 0 where num_neighbors == 0 is missing.
frac_of_unfixed(num, num_neighbors) ==
    IF num_neighbors = 0 THEN NaN ELSE <<num, num_neighbors>>

\* num / num_neighbors, then set to 0 where num_neighbors == 0 (without that
\* assignment 0 / 0 is NaN).
frac_of(num, num_neighbors) ==
    IF num_neighbors = 0 THEN <<0, 1>> ELSE <<num, num_neighbors>>

\* Schelling.count_neighbors: (empty, frac_same).
count_empty(a) == [c \in Cells |-> a[c] = 0]

count_frac_same(a) ==
    LET red  == [c \in Cells |-> a[c] = 1]
        blue == [c \in Cells |-> a[c] = 2]
        num_red(c)  == correlate2d(red, c)
        num_blue(c) == correlate2d(blue, c)
        num_neighbors(c) == num_red(c) + num_blue(c)
        frac_red(c)  == frac_of(num_red(c), num_neighbors(c))
        frac_blue(c) == frac_of(num_blue(c), num_neighbors(c))
    IN  [c \in Cells |->
            IF a[c] = 0 THEN NaN
            ELSE IF red[c] THEN frac_red(c) ELSE frac_blue(c)]

\* Least common multiple of the possible denominators 1..8.
Denom == 8 * 7 * 5 * 3

\* np.nanmean(frac): the mean over the cells that are not NaN, NaN if none.
nanmean(frac) ==
    LET live   == {c \in Cells : ~IsNaN(frac[c])}
        scaled == [c \in live |-> (frac[c][1] * Denom) \div frac[c][2]]
    IN  IF live = {} THEN NaN
        ELSE <<SumOver(scaled, live), Denom * Cardinality(live)>>

\* Schelling.segregation
segregation(a) == nanmean(count_frac_same(a))

\* Thresholds p offered to the constructor.
Thresholds == {<<0, 1>>, <<3, 10>>, <<1, 2>>, <<1, 1>>}

NumAgentsOf(a) == Cardinality({c \in Cells : a[c] # 0})

\* Numbers of agents on the grids Init draws, besides the full grids.
AgentCounts == 0 .. 3

\* Grids np.random.choice can draw: every cell is 0, 1 or 2.  Init takes those
\* with a number of agents in AgentCounts, and those with no empty cell.
InitGrids ==
    {a \in [Cells -> 0 .. 2] : NumAgentsOf(a) \in AgentCounts \/ NumAgentsOf(a) = N*N}

\* Schelling.__init__
SchInit ==
    /\ array \in InitGrids
    /\ p \in Thresholds
    /\ pc = "idle"
    /\ frac_same = [c \in Cells |-> NaN]
    /\ unhappy_locs = <<>>
    /\ empty_locs = <<>>
    /\ num_empty = 0
    /\ k = 1
    /\ ret = NoRet
    /\ err = ""
    /\ array0 = array

\* Schelling.step, up to the loop: survey, unhappy cells, empty cells.
\* np.random.shuffle(unhappy_locs) is a uniform draw of a permutation; the
\* draw of the element at position k is made when the loop reaches k (Move),
\* which yields the same set of permutations.
StepBegin ==
    /\ pc = "idle"
    /\ LET fs      == count_frac_same(array)
           empty   == count_empty(array)
           unhappy == [c \in Cells |-> FracLess(fs[c], p)]
       IN  /\ frac_same' = fs
           /\ unhappy_locs' = locs_where(unhappy)
           /\ empty_locs' = locs_where(empty)
           /\ num_empty' = Cardinality({c \in Cells : empty[c]})
    /\ k' = 1
    /\ pc' = "loop"
    /\ array0' = array
    /\ ret' = NoRet
    /\ UNCHANGED <<array, p, err>>
    /\ UNCHANGED sugVars
    /\ UNCHANGED callVars

\* Mutant of MoveAgent: the source cell is not cleared.
MoveAgent_keeps_source(a, source, dest) == [a EXCEPT ![dest] = a[source]]

\* The array after a[dest] = a[source]; a[source] = 0.
MoveAgent(a, source, dest) ==
    [[a EXCEPT ![dest] = a[source]] EXCEPT ![source] = 0]

\* Mutant of SetEmptyLoc: the consumed slot is not overwritten.
SetEmptyLoc_stale(locs, i, source) == locs

\* The list after empty_locs[i] = source.
SetEmptyLoc(locs, i, source) == [locs EXCEPT ![i + 1] = source]

\* Mutant of StepResult: the survey is taken again after the moves.
StepResult_after_moves(fs, a) == segregation(a)

\* The value step() returns: np.nanmean of the survey taken before the moves.
StepResult(fs, a) == nanmean(fs)

\* Mutant of Move: a source that the moves made so far have satisfied is
\* skipped.
Move_if_still_unhappy ==
    /\ pc = "loop"
    /\ k <= Len(unhappy_locs)
    /\ num_empty > 0
    /\ \E j \in k .. Len(unhappy_locs), i \in 0 .. num_empty - 1 :
          LET shuffled == Swap(unhappy_locs, k, j)
              source == shuffled[k]
              dest   == empty_locs[i + 1]
              moves  == FracLess(count_frac_same(array)[source], p)
          IN  /\ unhappy_locs' = shuffled
              /\ array' = IF moves THEN MoveAgent(array, source, dest) ELSE array
              /\ empty_locs' = IF moves THEN SetEmptyLoc(empty_locs, i, source)
                                         ELSE empty_locs
    /\ k' = k + 1
    /\ UNCHANGED <<p, pc, err, frac_same, num_empty, ret, array0>>
    /\ UNCHANGED sugVars
    /\ UNCHANGED callVars

\* One iteration of the loop: the shuffle's draw j for position k, then draw
\* i, move, update empty_locs, assert.
Move ==
    /\ pc = "loop"
    /\ k <= Len(unhappy_locs)
    /\ num_empty > 0
    /\ \E j \in k .. Len(unhappy_locs), i \in 0 .. num_empty - 1 :
          LET shuffled == Swap(unhappy_locs, k, j)
              source == shuffled[k]
              dest   == empty_locs[i + 1]
              a2     == MoveAgent(array, source, dest)
              num_empty2 == Cardinality({c \in Cells : a2[c] = 0})
          IN  /\ unhappy_locs' = shuffled
              /\ array' = a2
              /\ empty_locs' = SetEmptyLoc(empty_locs, i, source)
              /\ IF num_empty = num_empty2
                 THEN pc' = "loop" /\ err' = err
                 ELSE pc' = "raised" /\ err' = "AssertionError"
    /\ k' = k + 1
    /\ UNCHANGED <<p, frac_same, num_empty, ret, array0>>
    /\ UNCHANGED sugVars
    /\ UNCHANGED callVars

\* Mutant of MoveRaises: with no empty cell the source is skipped and the loop
\* goes on.
MoveRaises_skips ==
    /\ pc = "loop"
    /\ k <= Len(unhappy_locs)
    /\ num_empty = 0
    /\ k' = k + 1
    /\ UNCHANGED <<array, p, pc, err, frac_same, unhappy_locs, empty_locs,
                   num_empty, ret, array0>>
    /\ UNCHANGED sugVars
    /\ UNCHANGED callVars

\* np.random.randint(0) raises ValueError before anything is written.
MoveRaises ==
    /\ pc = "loop"
    /\ k <= Len(unhappy_locs)
    /\ num_empty = 0
    /\ pc' = "raised"
    /\ err' = "ValueError"
    /\ UNCHANGED <<array, p, frac_same, unhappy_locs, empty_locs, num_empty, k,
                   ret, array0>>
    /\ UNCHANGED sugVars
    /\ UNCHANGED callVars

\* The loop is over: return np.nanmean(frac_same).  The locals of the call
\* end with it.
StepReturn ==
    /\ pc = "loop"
    /\ k > Len(unhappy_locs)
    /\ ret' = StepResult(frac_same, array)
    /\ pc' = "idle"
    /\ frac_same' = [c \in Cells |-> NaN]
    /\ unhappy_locs' = <<>>
    /\ empty_locs' = <<>>
    /\ num_empty' = 0
    /\ k' = 1
    /\ UNCHANGED <<array, p, err, array0>>
    /\ UNCHANGED sugVars
    /\ UNCHANGED callVars

SchNext == StepBegin \/ Move \/ MoveRaises \/ StepReturn

-----------------------------------------------------------------------------
(* Sugarscape *)

\* Parameters passed to Sugarscape(n, **params) and read by Agent.__init__.
\* The intervals of metabolism, lifespan and sugar are single points, which
\* np.random.uniform returns exactly: every agent starts with no sugar, eats
\* 1 a turn and dies of age on its second turn.
num_agents == 2
max_vision == 1
max_metabolism == 1
min_lifespan == 1
max_lifespan == 1
min_sugar == 0
max_sugar == 0

\* Values of params['grow_rate'] offered to the constructor, which checks none.
GrowRates == {-1, 1}

Min(a, b) == IF a <= b THEN a ELSE b

\* The floats of the Sugarscape (an agent's metabolism, lifespan and sugar)
\* are pairs <<a, b>> meaning a/b, all with the denominator b = Resolution, a
\* power of two: each is a double, and the sums and differences the code
\* makes of them are exact in doubles.
Resolution == 2 ^ ResolutionBits
\* The float of an integer.
Float(i) == <<i * Resolution, Resolution>>

\* float + int, float - float, float < 0, int > float.
FloatPlusInt(f, i) == <<f[1] + i * f[2], f[2]>>
FloatMinus(f, g) == <<(f[1] * g[2] - g[1] * f[2]) \div g[2], f[2]>>
FloatNegative(f) == f[1] < 0
IntGreater(i, f) == i * f[2] > f[1]

Abs(x) == IF x < 0 THEN -x ELSE x

\* The exponent of x >= 1 as a double: the e with 2^e <= x < 2^(e+1).
RECURSIVE Log2(_)
Log2(x) == IF x < 2 THEN 0 ELSE 1 + Log2(x \div 2)

IsPowerOfTwo(x) == x = 2 ^ Log2(x)

\* low + (high - low) * u in doubles at the largest u, 1 - 2^-53, is high.
\* The product is the double next to high - low towards 0, which lies
\* 2^(step-52) from it; the sum is then rounded to a double, and the double
\* next to high on the side of low lies 2^(gap-52) from high (half as far
\* when high is a power of two and low is on its side of 0).  The sum is
\* rounded to high when it lies at most half that gap from high (a tie goes
\* to high, the even one).  So uniform(1, 2) can return 2.0 and
\* uniform(1, 4) cannot return 4.0; no draw from an interval returns 0.0 as
\* its high.
RoundsToHigh(low, high) ==
    IF low = high THEN TRUE
    ELSE IF high = 0 THEN FALSE
    ELSE LET d      == Abs(high - low)
             h      == Abs(high)
             toward == (high > low) = (high > 0)
             step   == Log2(d) - (IF IsPowerOfTwo(d) THEN 1 ELSE 0)
             gap    == Log2(h) - (IF toward /\ IsPowerOfTwo(h) THEN 1 ELSE 0)
         IN  step < gap

\* np.random.uniform(low, high) returns low + (high - low) * u for a float u
\* of [0, 1).  For u a multiple of 1/Resolution the product and the sum are
\* exact; for the largest u the result is high when the sum rounds to it (and
\* a double next to high, which is not followed, when it does not).  With
\* high = low every u gives low.
uniform(low, high) ==
    {<<low * Resolution + (high - low) * i, Resolution>> : i \in 0 .. Resolution - 1}
        \cup (IF RoundsToHigh(low, high) THEN {Float(high)} ELSE {})

\* np.random.randint(low, high) draws from low .. high-1.
randint(low, high) == low .. high - 1

\* The peaks and the bin edges of make_capacity.
Peak1 == 15
Peak2 == 35
bins == <<21, 16, 11, 6>>

\* distances_from(n, i, j), squared: np.hypot(X-i, Y-j)^2 at cell c.
distances_from_sq(c, i, j) == (c[1] - i) * (c[1] - i) + (c[2] - j) * (c[2] - j)

\* np.digitize(dist, bins) for decreasing bins: the number of edges above dist.
digitize_sq(d2) == Cardinality({x \in DOMAIN bins : d2 < bins[x] * bins[x]})

\* Mutant of make_capacity_of: the second peak is left out.
make_capacity_one_peak(n) ==
    [c \in (0 .. n-1) \X (0 .. n-1) |->
        digitize_sq(distances_from_sq(c, Peak1, Peak1))]

\* Sugarscape.make_capacity for a grid of side n.
make_capacity_of(n) ==
    [c \in (0 .. n-1) \X (0 .. n-1) |->
        digitize_sq(Min(distances_from_sq(c, Peak1, Peak1),
                        distances_from_sq(c, Peak2, Peak2)))]

\* Sugarscape.make_capacity
make_capacity == make_capacity_of(N)

\* make_locs(n, m) as a set: the cells of the starting box.
make_locs(n, m) == (0 .. n-1) \X (0 .. m-1)

\* Starting boxes inside the grid (params['starting_box'], default the grid).
Boxes == (1 .. N) \X (1 .. N)

\* Agent.__init__: the agents that can be created at loc.
NewAgents(loc) ==
    {[loc |-> loc, age |-> 0, vision |-> v, metabolism |-> m, lifespan |-> l,
      sugar |-> s] :
        v \in randint(1, max_vision + 1), m \in uniform(1, max_metabolism),
        l \in uniform(min_lifespan, max_lifespan), s \in uniform(min_sugar, max_sugar)}

\* Agent.is_starving
is_starving(a) == FloatNegative(a.sugar)

\* Mutant of is_old: an agent is old as soon as its age reaches its lifespan.
is_old_at_lifespan(a) == a.age * a.lifespan[2] >= a.lifespan[1]

\* Agent.is_old
is_old(a) == IntGreater(a.age, a.lifespan)

\* The 24 orders np.random.shuffle can give the four offsets of one ring.
RingOrders == {q \in [1 .. 4 -> 1 .. 4] : \A x, y \in 1 .. 4 : q[x] = q[y] => x = y}

\* Mutant of make_visible_locs_with: the last offset of a ring is diagonal.
make_visible_locs_diagonal(vision, orders) ==
    [x \in 1 .. 4 * vision |->
        LET d == ((x - 1) \div 4) + 1
            a == << <<-d, 0>>, <<d, 0>>, <<0, -d>>, <<d, d>> >>
        IN  a[orders[d][((x - 1) % 4) + 1]]]

\* make_visible_locs(vision): the rings 1..vision, ring d shuffled by orders[d].
make_visible_locs_with(vision, orders) ==
    [x \in 1 .. 4 * vision |->
        LET d == ((x - 1) \div 4) + 1
            a == << <<-d, 0>>, <<d, 0>>, <<0, -d>>, <<0, d>> >>
        IN  a[orders[d][((x - 1) % 4) + 1]]]

\* The arrays make_visible_locs(vision) can return, for each vision drawn.
make_visible_locs ==
    [vision \in randint(1, max_vision + 1) |->
        {make_visible_locs_with(vision, orders) : orders \in [1 .. vision -> RingOrders]}]

\* Mutant of argmax: the last index of the largest element.
argmax_last(t) ==
    CHOOSE i \in DOMAIN t :
        /\ \A j \in DOMAIN t : t[j] <= t[i]
        /\ \A j \in i + 1 .. Len(t) : t[j] < t[i]

\* np.argmax(t): the first index of the largest element.
argmax(t) ==
    CHOOSE i \in DOMAIN t :
        /\ \A j \in DOMAIN t : t[j] <= t[i]
        /\ \A j \in 1 .. i - 1 : t[j] < t[i]

\* Mutant of look_and_move: without the test for no empty cell; the first
\* visible cell is returned when all are occupied.
look_and_move_no_stay(n, occ, arr, center, offs) ==
    LET locs == [x \in DOMAIN offs |->
                    <<(offs[x][1] + center[1]) % n, (offs[x][2] + center[2]) % n>>]
        empty == SelectSeq(locs, LAMBDA c : c \notin occ)
        t == [x \in DOMAIN empty |-> arr[empty[x]]]
    IN  IF Len(empty) = 0 THEN locs[1] ELSE empty[argmax(t)]

\* Mutant of look_and_move: the occupied cells are not filtered out.
look_and_move_unfiltered(n, occ, arr, center, offs) ==
    LET locs == [x \in DOMAIN offs |->
                    <<(offs[x][1] + center[1]) % n, (offs[x][2] + center[2]) % n>>]
        t == [x \in DOMAIN locs |-> arr[locs[x]]]
    IN  locs[argmax(t)]

\* Sugarscape.look_and_move on a grid of side n, given the array offs that
\* make_visible_locs returned.
look_and_move(n, occ, arr, center, offs) ==
    LET locs == [x \in DOMAIN offs |->
                    <<(offs[x][1] + center[1]) % n, (offs[x][2] + center[2]) % n>>]
        empty == SelectSeq(locs, LAMBDA c : c \notin occ)
        t == [x \in DOMAIN empty |-> arr[empty[x]]]
    IN  IF Len(empty) = 0 THEN center ELSE empty[argmax(t)]

\* Sugarscape.grow
grow(arr, cap, rate) == [c \in Cells |-> Min(arr[c] + rate, cap[c])]

\* list.remove(x): the list without its first element equal to x.
ListRemove(s, x) ==
    LET i == CHOOSE y \in DOMAIN s : s[y] = x /\ \A z \in 1 .. y - 1 : s[z] # x
    IN  [y \in 1 .. Len(s) - 1 |-> IF y < i THEN s[y] ELSE s[y + 1]]

\* A new object is distinct from every object still referenced.
FreshId ==
    LET used == Range(agents) \cup Range(random_order)
    IN  CHOOSE i \in 1 .. Cardinality(used) + 1 :
            i \notin used /\ \A j \in 1 .. i - 1 : j \in used

\* Sugarscape.__init__ with make_agents: num_agents agents on distinct cells of
\* the starting box (the first num_agents of the shuffled locs).
SugInit ==
    /\ capacity = make_capacity
    /\ sugar_array = make_capacity
    /\ grow_rate \in GrowRates
    /\ replace \in BOOLEAN
    /\ agents = [i \in 1 .. num_agents |-> i]
    /\ \E box \in Boxes :
          /\ num_agents <= Cardinality(make_locs(box[1], box[2]))
          /\ \E locs \in [1 .. num_agents -> make_locs(box[1], box[2])] :
                /\ \A x, y \in 1 .. num_agents : locs[x] = locs[y] => x = y
                /\ agent_obj \in
                      {f \in [1 .. num_agents -> UNION {NewAgents(locs[i]) : i \in 1 .. num_agents}] :
                          \A i \in 1 .. num_agents : f[i].loc = locs[i]}
    /\ occupied = {agent_obj[i].loc : i \in 1 .. num_agents}
    /\ agent_count_seq = <<>>
    /\ spc = "idle"
    /\ random_order = <<>>
    /\ idx = 1
    /\ sret = -1
    /\ processed = {}
    /\ count0 = num_agents

\* The number of times the caller calls env.step(), one call after another:
\* the times of a caller followed for that many calls, MaxTicks otherwise.
step_calls == IF call.op = "steps" THEN call.times ELSE MaxTicks

\* The caller calls env.step() once more.  Nothing but the caller decides it:
\* step() can be called whatever the population is.
CallerCallsStep == Len(agent_count_seq) < step_calls

\* Sugarscape.step, up to the loop.  np.random.permutation(self.agents) is a
\* uniform draw of a permutation; the draw of the element at position idx is
\* made when the loop reaches idx (AgentTurn).
SugStepBegin ==
    /\ spc = "idle"
    /\ CallerCallsStep
    /\ random_order' = agents
    /\ idx' = 1
    /\ spc' = "loop"
    /\ processed' = {}
    /\ count0' = Len(agents)
    /\ UNCHANGED <<capacity, sugar_array, grow_rate, replace, agents, agent_obj,
                   occupied, agent_count_seq, sret>>
    /\ UNCHANGED schVars
    /\ UNCHANGED callVars

\* The cells look_and_move can return, over the shuffles of the rings.
look_and_move_results(n, occ, arr, center, vision) ==
    {look_and_move(n, occ, arr, center, offs) : offs \in make_visible_locs[vision]}

\* Mutant of AgentStep: the metabolism is not subtracted.
AgentStep_without_metabolism(a, newloc, arr) ==
    [a EXCEPT !.loc = newloc,
              !.sugar = FloatPlusInt(a.sugar, arr[newloc]),
              !.age = a.age + 1]

\* Agent.step, given the cell look_and_move returned: move, harvest, pay the
\* metabolism, age.
AgentStep(a, newloc, arr) ==
    [a EXCEPT !.loc = newloc,
              !.sugar = FloatMinus(FloatPlusInt(a.sugar, arr[newloc]), a.metabolism),
              !.age = a.age + 1]

\* Mutant of harvest: the cell is read and not set to 0.
harvest_keeps(arr, loc) == arr

\* Sugarscape.harvest: the array after harvesting loc.
harvest(arr, loc) == [arr EXCEPT ![loc] = 0]

\* Mutant of IsDead: old age is not checked.
IsDead_starving_only(a) == is_starving(a)

\* Whether step() takes the agent off the list after its turn.
IsDead(a) == is_starving(a) \/ is_old(a)

\* Mutant of AgentTurn: the loop runs over self.agents itself, the list the
\* removals shorten and add_agent extends, and not over a permutation of it.
AgentTurn_over_live_list ==
    /\ spc = "loop"
    /\ idx <= Len(agents)
    /\ \E j \in {idx} :
        LET order == random_order
            id    == agents[idx]
            a     == agent_obj[id]
        IN  \E newloc \in look_and_move_results(N, occupied \ {a.loc}, sugar_array,
                                                   a.loc, a.vision) :
              LET occ1 == occupied \ {a.loc}
                  a2   == AgentStep(a, newloc, sugar_array)
              IN  /\ random_order' = order
                  /\ IF a.loc \notin occupied
                     THEN /\ spc' = "KeyError"
                          /\ UNCHANGED <<agents, agent_obj, occupied, sugar_array>>
                     ELSE IF IsDead(a2)
                     THEN /\ sugar_array' = harvest(sugar_array, a2.loc)
                          /\ agents' = ListRemove(agents, id)
                          /\ agent_obj' = [x \in DOMAIN agent_obj \ {id} |-> agent_obj[x]]
                          /\ occupied' = occ1
                          /\ spc' = IF replace THEN "add_agent" ELSE "loop"
                     ELSE /\ sugar_array' = harvest(sugar_array, a2.loc)
                          /\ agent_obj' = [agent_obj EXCEPT ![id] = a2]
                          /\ occupied' = occ1 \cup {a2.loc}
                          /\ spc' = "loop"
                          /\ UNCHANGED agents
                  /\ processed' = IF a.loc \notin occupied THEN processed
                                  ELSE processed \cup {id}
                  /\ idx' = IF a.loc \notin occupied THEN idx ELSE idx + 1
    /\ UNCHANGED <<capacity, grow_rate, replace, agent_count_seq, sret, count0>>
    /\ UNCHANGED schVars
    /\ UNCHANGED callVars

\* Mutant of AgentTurn: the cell a dead agent stood on stays in the occupancy
\* index.
AgentTurn_leaves_dead_cell ==
    /\ spc = "loop"
    /\ idx <= Len(random_order)
    /\ \E j \in idx .. Len(random_order) :
        LET order == Swap(random_order, idx, j)
            id    == order[idx]
            a     == agent_obj[id]
        IN  \E newloc \in look_and_move_results(N, occupied \ {a.loc}, sugar_array,
                                                   a.loc, a.vision) :
              LET occ1 == occupied \ {a.loc}
                  a2   == AgentStep(a, newloc, sugar_array)
              IN  /\ random_order' = order
                  /\ IF a.loc \notin occupied
                     THEN /\ spc' = "KeyError"
                          /\ UNCHANGED <<agents, agent_obj, occupied, sugar_array>>
                     ELSE IF IsDead(a2)
                     THEN /\ sugar_array' = harvest(sugar_array, a2.loc)
                          /\ agents' = ListRemove(agents, id)
                          /\ agent_obj' = [x \in DOMAIN agent_obj \ {id} |-> agent_obj[x]]
                          /\ occupied' = occupied
                          /\ spc' = IF replace THEN "add_agent" ELSE "loop"
                     ELSE /\ sugar_array' = harvest(sugar_array, a2.loc)
                          /\ agent_obj' = [agent_obj EXCEPT ![id] = a2]
                          /\ occupied' = occ1 \cup {a2.loc}
                          /\ spc' = "loop"
                          /\ UNCHANGED agents
                  /\ processed' = IF a.loc \notin occupied THEN processed
                                  ELSE processed \cup {id}
                  /\ idx' = IF a.loc \notin occupied THEN idx ELSE idx + 1
    /\ UNCHANGED <<capacity, grow_rate, replace, agent_count_seq, sret, count0>>
    /\ UNCHANGED schVars
    /\ UNCHANGED callVars

\* One iteration of the loop of step(), up to the call of add_agent.  When
\* the agent's cell is not in self.occupied, self.occupied.remove raises
\* KeyError before the agent steps: nothing is harvested and step() ends.
AgentTurn ==
    /\ spc = "loop"
    /\ idx <= Len(random_order)
    /\ \E j \in idx .. Len(random_order) :
        LET order == Swap(random_order, idx, j)
            id    == order[idx]
            a     == agent_obj[id]
        IN  \E newloc \in look_and_move_results(N, occupied \ {a.loc}, sugar_array,
                                                   a.loc, a.vision) :
              LET occ1 == occupied \ {a.loc}
                  a2   == AgentStep(a, newloc, sugar_array)
              IN  /\ random_order' = order
                  /\ IF a.loc \notin occupied
                     THEN /\ spc' = "KeyError"
                          /\ UNCHANGED <<agents, agent_obj, occupied, sugar_array>>
                     ELSE IF IsDead(a2)
                     THEN /\ sugar_array' = harvest(sugar_array, a2.loc)
                          /\ agents' = ListRemove(agents, id)
                          /\ agent_obj' = [x \in DOMAIN agent_obj \ {id} |-> agent_obj[x]]
                          /\ occupied' = occ1
                          /\ spc' = IF replace THEN "add_agent" ELSE "loop"
                     ELSE /\ sugar_array' = harvest(sugar_array, a2.loc)
                          /\ agent_obj' = [agent_obj EXCEPT ![id] = a2]
                          /\ occupied' = occ1 \cup {a2.loc}
                          /\ spc' = "loop"
                          /\ UNCHANGED agents
                  /\ processed' = IF a.loc \notin occupied THEN processed
                                  ELSE processed \cup {id}
                  /\ idx' = IF a.loc \notin occupied THEN idx ELSE idx + 1
    /\ UNCHANGED <<capacity, grow_rate, replace, agent_count_seq, sret, count0>>
    /\ UNCHANGED schVars
    /\ UNCHANGED callVars

\* Mutant of random_loc: the first draw is returned, occupied or not.
random_loc_unchecked(occ) == Cells

\* Mutant of add_agent: the new agent is not appended to the list.
add_agent_not_appended ==
    /\ spc = "add_agent"
    /\ spc' = "loop"
    /\ UNCHANGED <<capacity, sugar_array, grow_rate, replace, agents, agent_obj,
                   occupied, agent_count_seq, random_order, idx, sret, processed,
                   count0>>
    /\ UNCHANGED schVars
    /\ UNCHANGED callVars

\* Sugarscape.random_loc: the cells the rejection sampling can return.
random_loc(occ) == Cells \ occ

\* Sugarscape.add_agent, called by step() after a death when replace is set.
add_agent ==
    /\ spc = "add_agent"
    /\ \E loc \in random_loc(occupied) :
          \E new_agent \in NewAgents(loc) :
              /\ agents' = Append(agents, FreshId)
              /\ agent_obj' = [x \in DOMAIN agent_obj \cup {FreshId} |->
                                  IF x = FreshId THEN new_agent ELSE agent_obj[x]]
              /\ occupied' = occupied \cup {new_agent.loc}
    /\ spc' = "loop"
    /\ UNCHANGED <<capacity, sugar_array, grow_rate, replace, agent_count_seq,
                   random_order, idx, sret, processed, count0>>
    /\ UNCHANGED schVars
    /\ UNCHANGED callVars

\* Mutant of SugStepEnd: the population is counted before the agents are
\* processed.
SugStepEnd_counts_before ==
    /\ spc = "loop"
    /\ idx > Len(random_order)
    /\ agent_count_seq' = Append(agent_count_seq, count0)
    /\ sugar_array' = grow(sugar_array, capacity, grow_rate)
    /\ sret' = count0
    /\ spc' = "idle"
    /\ random_order' = <<>>
    /\ idx' = 1
    /\ UNCHANGED <<capacity, grow_rate, replace, agents, agent_obj, occupied,
                   processed, count0>>
    /\ UNCHANGED schVars
    /\ UNCHANGED callVars

\* The loop is over: record the population, grow, return the population.
SugStepEnd ==
    /\ spc = "loop"
    /\ idx > Len(random_order)
    /\ agent_count_seq' = Append(agent_count_seq, Len(agents))
    /\ sugar_array' = grow(sugar_array, capacity, grow_rate)
    /\ sret' = Len(agents)
    /\ spc' = "idle"
    /\ random_order' = <<>>
    /\ idx' = 1
    /\ UNCHANGED <<capacity, grow_rate, replace, agents, agent_obj, occupied,
                   processed, count0>>
    /\ UNCHANGED schVars
    /\ UNCHANGED callVars

SugNext == SugStepBegin \/ AgentTurn \/ add_agent \/ SugStepEnd

-----------------------------------------------------------------------------
(* Specifications: one simulation at a time; the other one does not exist. *)

NoSchelling ==
    /\ array = [c \in Cells |-> 0]
    /\ p = <<0, 1>>
    /\ pc = "none"
    /\ frac_same = [c \in Cells |-> NaN]
    /\ unhappy_locs = <<>>
    /\ empty_locs = <<>>
    /\ num_empty = 0
    /\ k = 1
    /\ ret = NoRet
    /\ err = ""
    /\ array0 = array

NoSugarscape ==
    /\ capacity = [c \in Cells |-> 0]
    /\ sugar_array = [c \in Cells |-> 0]
    /\ grow_rate = 0
    /\ replace = FALSE
    /\ agents = <<>>
    /\ agent_obj = <<>>
    /\ occupied = {}
    /\ agent_count_seq = <<>>
    /\ spc = "none"
    /\ random_order = <<>>
    /\ idx = 1
    /\ sret = -1
    /\ processed = {}
    /\ count0 = 0

\* No single operation is being called.
NoCall ==
    /\ call = [op |-> "none"]
    /\ result = [op |-> "none"]

SchellingInit == SchInit /\ NoSugarscape /\ NoCall

SugarscapeInit == SugInit /\ NoSchelling /\ NoCall

SchellingSpec == SchellingInit /\ [][SchNext]_vars

SugarscapeSpec == SugarscapeInit /\ [][SugNext]_vars

-----------------------------------------------------------------------------
(* Agent.step called once, on a drawn environment *)

\* The cells of a grid of side n.
GridCells(n) == (0 .. n-1) \X (0 .. n-1)

\* Sides of the grids, and visions of the agents, Agent.step is called with.
StepSides == {N, N + 3}
StepVisions == 1 .. 2

\* The arrays make_visible_locs(vision) can return, for each vision of
\* StepVisions.
make_visible_locs_of ==
    [vision \in StepVisions |->
        {make_visible_locs_with(vision, orders) : orders \in [1 .. vision -> RingOrders]}]

\* The cells at the axis-aligned offsets of distance d from center, wrapped.
Ring(n, center, d) ==
    {<<(center[1] + d) % n, center[2]>>, <<(center[1] - d) % n, center[2]>>,
     <<center[1], (center[2] + d) % n>>, <<center[1], (center[2] - d) % n>>}

\* The visibility set of center.
Visible(n, center, vision) == UNION {Ring(n, center, d) : d \in 1 .. vision}

\* Numbers of visible cells holding sugar in the environments drawn.
SugarCellCounts == 0 .. 2

\* The occupancy indexes drawn over the visible cells V: few cells occupied,
\* or all but few.
OccupiedSets(V) ==
    {occ \in SUBSET V : Cardinality(occ) <= 2 \/ Cardinality(occ) >= Cardinality(V) - 1}

\* The corner cells an agent is placed on.
StepCenters == {<<0, 0>>}

\* The calls drawn for an agent of the given vision on center, on a grid of
\* side n: the agent's cell holds 2, some visible cells hold 1, every other
\* cell 0; the occupied cells are visible cells.
StepCallsAt(n, center, vision) ==
    {[op |-> "Agent.step", n |-> n, occupied |-> occ,
      array |-> [c \in GridCells(n) |->
                    IF c = center THEN 2 ELSE IF c \in sweet THEN 1 ELSE 0],
      agent |-> [loc |-> center, age |-> 0, vision |-> vision,
                 metabolism |-> Float(1), lifespan |-> Float(1),
                 sugar |-> Float(1)]] :
        occ \in OccupiedSets(Visible(n, center, vision)),
        sweet \in {s \in SUBSET (Visible(n, center, vision) \ {center}) :
                      Cardinality(s) \in SugarCellCounts}}

StepCalls ==
    UNION {StepCallsAt(n, center, vision) :
              n \in StepSides, center \in StepCenters, vision \in StepVisions}

AgentStepInit ==
    /\ call \in StepCalls
    /\ result = [op |-> "none"]
    /\ NoSchelling
    /\ NoSugarscape

\* agent.step(env): look_and_move, then harvest the cell it returned.
CallAgentStep ==
    /\ call.op = "Agent.step"
    /\ result.op = "none"
    /\ \E offs \in make_visible_locs_of[call.agent.vision] :
          LET newloc == look_and_move(call.n, call.occupied, call.array,
                                      call.agent.loc, offs)
          IN  result' = [op |-> "Agent.step",
                         agent |-> AgentStep(call.agent, newloc, call.array),
                         array |-> harvest(call.array, newloc)]
    /\ UNCHANGED call
    /\ UNCHANGED schVars
    /\ UNCHANGED sugVars

AgentStepSpec == AgentStepInit /\ [][CallAgentStep]_vars

-----------------------------------------------------------------------------
(* Agent.step called again and again on the same agent and environment *)

\* The largest number of calls of Agent.step followed.
MaxCalls == MaxTicks + 1

\* The agent and the array before the next call, and the calls made so far.
LifeSoFar ==
    IF result.op = "none"
    THEN [agent |-> call.agent, array |-> call.array, calls |-> 0]
    ELSE [agent |-> result.agent, array |-> result.array, calls |-> result.calls]

\* params['max_metabolism'] of the agents whose lives are followed.
life_max_metabolism == 2

\* The calls a life starts with: an agent of vision 1 on each side, with each
\* metabolism Agent.__init__ draws from [1, life_max_metabolism].
LifeCalls ==
    {[c EXCEPT !.agent.metabolism = m] :
        c \in UNION {StepCallsAt(n, center, 1) : n \in StepSides, center \in StepCenters},
        m \in uniform(1, life_max_metabolism)}

AgentLifeInit ==
    /\ call \in LifeCalls
    /\ result = [op |-> "none"]
    /\ NoSchelling
    /\ NoSugarscape

\* agent.step(env) once more: the other agents stay where they are and no
\* sugar grows back in between.
CallAgentStepAgain ==
    /\ call.op = "Agent.step"
    /\ LifeSoFar.calls < MaxCalls
    /\ \E offs \in make_visible_locs_of[LifeSoFar.agent.vision] :
          LET newloc == look_and_move(call.n, call.occupied, LifeSoFar.array,
                                      LifeSoFar.agent.loc, offs)
          IN  result' = [op |-> "Agent.step",
                         agent |-> AgentStep(LifeSoFar.agent, newloc, LifeSoFar.array),
                         array |-> harvest(LifeSoFar.array, newloc),
                         calls |-> LifeSoFar.calls + 1]
    /\ UNCHANGED call
    /\ UNCHANGED schVars
    /\ UNCHANGED sugVars

AgentLifeSpec == AgentLifeInit /\ [][CallAgentStepAgain]_vars

-----------------------------------------------------------------------------
(* Sugarscape(n, **params) called once *)

\* Values of params['num_agents'] the constructor is called with.
AskedAgents == {0, num_agents, N * N + 1}

\* The starting box of the call: params['starting_box'], or the shape of the
\* grid when none is given (<<>>).
starting_box(c) == IF c.starting_box = <<>> THEN <<N, N>> ELSE c.starting_box

ConstructionInit ==
    /\ call \in [op : {"Sugarscape"}, starting_box : Boxes \cup {<<>>},
                 num_agents : AskedAgents, grow_rate : GrowRates, replace : BOOLEAN]
    /\ result = [op |-> "none"]
    /\ NoSchelling
    /\ NoSugarscape

\* Mutant of EnoughLocs: < instead of <=.
EnoughLocs_strict(count, locs) == count < Cardinality(locs)

\* The assertion of make_agents: num_agents <= len(locs).
EnoughLocs(count, locs) == count <= Cardinality(locs)

\* The agent lists make_agents can build: count agents on the first count
\* cells of the shuffled locs, one Agent(locs[i], params) each.
MadeAgents(count, locs) ==
    {f \in [1 .. count -> UNION {NewAgents(loc) : loc \in locs}] :
        \A x, y \in 1 .. count : f[x].loc = f[y].loc => x = y}

\* The constructor when the assertion of make_agents holds.
Construct ==
    /\ call.op = "Sugarscape"
    /\ result.op = "none"
    /\ LET box  == starting_box(call)
           locs == make_locs(box[1], box[2])
       IN  /\ EnoughLocs(call.num_agents, locs)
           /\ agent_obj' \in MadeAgents(call.num_agents, locs)
    /\ agents' = [i \in 1 .. call.num_agents |-> i]
    /\ occupied' = {agent_obj'[i].loc : i \in 1 .. call.num_agents}
    /\ capacity' = make_capacity
    /\ sugar_array' = make_capacity
    /\ grow_rate' = call.grow_rate
    /\ replace' = call.replace
    /\ agent_count_seq' = <<>>
    /\ spc' = "idle"
    /\ count0' = call.num_agents
    /\ result' = [op |-> "Sugarscape", raised |-> ""]
    /\ UNCHANGED <<random_order, idx, sret, processed, call>>
    /\ UNCHANGED schVars

\* The constructor when the assertion fails: AssertionError leaves
\* make_agents before any Agent is made, and the call returns no object.
ConstructRaises ==
    /\ call.op = "Sugarscape"
    /\ result.op = "none"
    /\ LET box  == starting_box(call)
           locs == make_locs(box[1], box[2])
       IN  ~EnoughLocs(call.num_agents, locs)
    /\ result' = [op |-> "Sugarscape", raised |-> "AssertionError"]
    /\ UNCHANGED call
    /\ UNCHANGED sugVars
    /\ UNCHANGED schVars

ConstructionNext == Construct \/ ConstructRaises

ConstructionSpec == ConstructionInit /\ [][ConstructionNext]_vars

-----------------------------------------------------------------------------
(* step() called MaxTicks + 1 times on a Sugarscape without replacement *)

StepsInit ==
    /\ SugInit
    /\ ~replace
    /\ call \in [op : {"steps"}, times : {MaxTicks + 1}]
    /\ result = [op |-> "none"]
    /\ NoSchelling

StepsNext == SugStepBegin \/ AgentTurn \/ SugStepEnd

StepsSpec == StepsInit /\ [][StepsNext]_vars

-----------------------------------------------------------------------------
(* Every way an agent gets a location: the constructor on a starting box *)
(* followed by step() calls, and Agent.step on a drawn environment       *)

MovementInit == ConstructionInit \/ AgentStepInit

MovementNext == ConstructionNext \/ SugNext \/ CallAgentStep

MovementSpec == MovementInit /\ [][MovementNext]_vars

-----------------------------------------------------------------------------
(* The capacity and the first level of a cell of a new Sugarscape(n) *)

\* The side of the notebook's Sugarscapes: Sugarscape(50, ...).
NotebookSide == 50

CapacityInit ==
    /\ call \in [op : {"capacity"}, n : {NotebookSide}, loc : GridCells(NotebookSide)]
    /\ result = [op |-> "none"]
    /\ NoSchelling
    /\ NoSugarscape

\* Sugarscape(n) is constructed; capacity[loc] and array[loc] are read.
ReadCapacity ==
    /\ call.op = "capacity"
    /\ result.op = "none"
    /\ LET cap == make_capacity_of(call.n)
           arr == cap
       IN  result' = [op |-> "capacity", capacity |-> cap[call.loc],
                      array |-> arr[call.loc]]
    /\ UNCHANGED call
    /\ UNCHANGED schVars
    /\ UNCHANGED sugVars

CapacitySpec == CapacityInit /\ [][ReadCapacity]_vars

-----------------------------------------------------------------------------
(* harvest(loc) called on a new Sugarscape, twice *)

HarvestInit ==
    /\ SugInit
    /\ call = [op |-> "harvest", made |-> 0]
    /\ result = [op |-> "none"]
    /\ NoSchelling

\* env.harvest(loc): sugar = self.array[loc]; self.array[loc] = 0; return sugar.
CallHarvest ==
    /\ call.op = "harvest"
    /\ call.made < 2
    /\ spc = "idle"
    /\ \E loc \in Cells :
          /\ sugar_array' = harvest(sugar_array, loc)
          /\ result' = [op |-> "harvest", loc |-> loc, ret |-> sugar_array[loc]]
    /\ call' = [call EXCEPT !.made = call.made + 1]
    /\ UNCHANGED <<capacity, grow_rate, replace, agents, agent_obj, occupied,
                   agent_count_seq, spc, random_order, idx, sret, processed, count0>>
    /\ UNCHANGED schVars

HarvestSpec == HarvestInit /\ [][CallHarvest]_vars

-----------------------------------------------------------------------------
(* Properties *)

\* The locations of the agents on the list.
AgentLocs == {agent_obj[agents[i]].loc : i \in DOMAIN agents}

\* C1: between step() calls (after construction and after every step, with
\* or without replacement) the occupancy index is exactly the set of the
\* listed agents' locations, it has as many elements as there are agents,
\* and no two agents share a location.
C1_OccupancyInvariant ==
    spc = "idle" =>
        /\ occupied = AgentLocs
        /\ Cardinality(occupied) = Len(agents)
        /\ \A i, j \in DOMAIN agents :
              agent_obj[agents[i]].loc = agent_obj[agents[j]].loc => i = j

\* A second step with replacement has ended, and a replacement is on the list.
C1_Witness ==
    /\ spc = "idle"
    /\ replace
    /\ Len(agent_count_seq) >= 2
    /\ Len(agents) = num_agents
    /\ \E i \in DOMAIN agents : agent_obj[agents[i]].age = 0
    /\ \E i \in DOMAIN agents : agent_obj[agents[i]].age > 0

EmptyCount(a) == Cardinality({c \in Cells : a[c] = 0})

\* C2: after every move of a Schelling tick, and at its end, the number of
\* empty cells equals the number at the start of the tick (num_empty), and
\* the assertion in the loop never fails.
C2_EmptyCountUnchanged ==
    /\ err # "AssertionError"
    /\ EmptyCount(array) = EmptyCount(array0)
    /\ pc = "loop" => num_empty = EmptyCount(array)

\* Two agents have moved in the tick that is running.
C2_Witness ==
    /\ pc = "loop"
    /\ k = 3
    /\ array # array0

TypeCount(a, type) == Cardinality({c \in Cells : a[c] = type})

\* C3: no step of a Schelling simulation changes the number of red cells or
\* the number of blue cells: agents are relocated, never created or destroyed.
C3_AgentsConserved ==
    [][\A type \in {1, 2} : TypeCount(array', type) = TypeCount(array, type)]_vars

\* A tick that moved agents has ended, on a grid with both types.
C3_Witness ==
    /\ pc = "idle"
    /\ ret # NoRet
    /\ array # array0
    /\ TypeCount(array, 1) > 0
    /\ TypeCount(array, 2) > 0

\* C4: the sugar level of every cell is at least 0 and at most the cell's
\* capacity, in every reachable state and for every grow_rate accepted.
C4_SugarWithinCapacity ==
    \A c \in Cells : 0 <= sugar_array[c] /\ sugar_array[c] <= capacity[c]

\* C5: an agent that is starving or old after its turn is taken off the list
\* in that turn and its location is not put back into the occupancy index:
\* no listed agent processed in the tick is starving or old, and every
\* occupied cell is the location of a listed agent.
C5_DeathIsImmediate ==
    /\ \A i \in DOMAIN agents :
          agents[i] \in processed =>
              /\ agent_obj[agents[i]].sugar[1] >= 0
              /\ agent_obj[agents[i]].age * agent_obj[agents[i]].lifespan[2]
                    <= agent_obj[agents[i]].lifespan[1]
    /\ occupied \subseteq AgentLocs

\* A tick without replacement has ended in which one agent died and the other
\* survived.
C5_Witness ==
    /\ spc = "idle"
    /\ ~replace
    /\ count0 = 2
    /\ Len(agents) = 1
    /\ agents[1] \in processed
    /\ Cardinality(processed) = 2

\* C6: with replace enabled every death is followed by exactly one new agent
\* on a cell outside the occupancy index: the population is the one at the
\* start of the tick (less the agent about to be replaced while add_agent is
\* pending), and the occupancy index has one cell per agent.
C6_ReplacementKeepsPopulation ==
    replace =>
        /\ Len(agents) = count0 - (IF spc = "add_agent" THEN 1 ELSE 0)
        /\ Cardinality(occupied) = Len(agents)

\* A tick with replacement has ended in which an agent died.
C6_Witness ==
    /\ spc = "idle"
    /\ replace
    /\ \E id \in processed : id \notin Range(agents)
    /\ Len(agents) = count0
    /\ count0 = num_agents

\* The survey as the specification states it: for an occupied cell, among
\* the 8 neighbours taken modulo the grid size, the number holding the
\* cell's type over the number occupied, 0 if none is occupied; NaN for an
\* empty cell.
SurveyedFrac(a, c) ==
    LET at(d)  == a[<<(c[1] + d[1]) % N, (c[2] + d[2]) % N>>]
        around == {d \in (-1 .. 1) \X (-1 .. 1) : d # <<0, 0>>}
        same   == Cardinality({d \in around : at(d) = a[c]})
        live   == Cardinality({d \in around : at(d) # 0})
    IN  IF a[c] = 0 THEN <<0, 0>>
        ELSE IF live = 0 THEN <<0, 1>> ELSE <<same, live>>

\* f is a number strictly below g; f is the same number as g.
StrictlyBelow(f, g) == f[2] # 0 /\ g[2] # 0 /\ f[1] * g[2] < g[1] * f[2]
SameNumber(f, g) == f[2] # 0 /\ g[2] # 0 /\ f[1] * g[2] = g[1] * f[2]

\* No occupied cell of grid a is strictly below the threshold.
AllSatisfied(a) ==
    \A c \in Cells : a[c] # 0 => ~StrictlyBelow(SurveyedFrac(a, c), p)

\* C7: the unhappy cells of a tick are occupied cells whose frac_same at the
\* start of the tick is strictly below p (never an empty cell, never a cell
\* at exactly p); if there is none, the tick moves nothing and leaves the
\* grid unchanged.
C7_FixedPoint ==
    /\ pc = "loop" =>
          \A x \in DOMAIN unhappy_locs :
              /\ array0[unhappy_locs[x]] # 0
              /\ StrictlyBelow(SurveyedFrac(array0, unhappy_locs[x]), p)
    /\ (pc \in {"loop", "idle"} /\ AllSatisfied(array0)) =>
          /\ array = array0
          /\ pc = "loop" => Len(unhappy_locs) = 0

\* A tick runs with no unhappy cell although an occupied cell is exactly at
\* the threshold.
C7_Witness ==
    /\ pc = "loop"
    /\ Len(unhappy_locs) = 0
    /\ p[1] > 0
    /\ \E c \in Cells : array0[c] # 0 /\ SameNumber(SurveyedFrac(array0, c), p)

\* C8: step() returns the segregation of the grid as it was when step() was
\* called, not of the grid it leaves.
C8_ReturnsSegregationBefore ==
    (pc = "idle" /\ ret # NoRet) => ret = segregation(array0)

\* A step has returned a value that differs from the segregation afterwards.
C8_Witness ==
    /\ pc = "idle"
    /\ ret # NoRet
    /\ ret # NaN
    /\ ret # segregation(array)

\* r is a number in [0, 1].
InUnitInterval(r) == r[2] > 0 /\ 0 <= r[1] /\ r[1] <= r[2]

\* C9 as claimed: step() returns a number in [0, 1] for every grid.
C9_ReturnInUnitInterval ==
    (pc = "idle" /\ ret # NoRet) => InUnitInterval(ret)

\* C9 amended: step() returns a number in [0, 1] for every grid that holds
\* at least one agent.
C9_ReturnInUnitIntervalIfOccupied ==
    (pc = "idle" /\ ret # NoRet /\ NumAgentsOf(array0) > 0) => InUnitInterval(ret)

\* A step has returned 0 on a grid whose only agent has no neighbour.
C9_Witness ==
    /\ pc = "idle"
    /\ ret # NoRet
    /\ NumAgentsOf(array0) = 1
    /\ InUnitInterval(ret)
    /\ ret[1] = 0

\* C10: the survey of a tick gives every occupied cell the fraction of its 8
\* wrapped neighbours that hold its type among those occupied (0 if none is
\* occupied) and every empty cell NaN.
C10_SurveyIsWrappedFraction ==
    pc = "loop" => \A c \in Cells : frac_same[c] = SurveyedFrac(array0, c)

\* The survey of a grid with two agents of one type, in opposite corners,
\* each the other's neighbour only across the edges.
C10_Witness ==
    /\ pc = "loop"
    /\ NumAgentsOf(array0) = 2
    /\ array0[<<0, 0>>] # 0
    /\ array0[<<N - 1, N - 1>>] = array0[<<0, 0>>]
    /\ frac_same[<<0, 0>>][1] > 0
    /\ frac_same[<<0, 0>>][1] = frac_same[<<0, 0>>][2]

\* The agent's cell and the visibility set of the call of Agent.step.
CallCenter == call.agent.loc
CallVisible == Visible(call.n, call.agent.loc, call.agent.vision)

\* The smallest distance of an offset that leads from the agent to cell c.
OffsetDistance(c) ==
    CHOOSE d \in 1 .. call.agent.vision :
        /\ c \in Ring(call.n, CallCenter, d)
        /\ \A e \in 1 .. d - 1 : c \notin Ring(call.n, CallCenter, e)

\* C11: when every cell of the visibility set is in the occupancy index,
\* look_and_move returns center: the call returns normally, the agent stays,
\* and it harvests its own cell (the cell goes to 0, the agent gains its level
\* less the metabolism, no other cell changes).
C11_StaysWhenAllOccupied ==
    (call.op = "Agent.step" /\ result.op = "Agent.step"
        /\ CallVisible \subseteq call.occupied) =>
        /\ result.agent.loc = CallCenter
        /\ result.agent.sugar =
              <<call.agent.sugar[1] + Resolution * call.array[CallCenter]
                    - call.agent.metabolism[1], Resolution>>
        /\ result.array[CallCenter] = 0
        /\ \A c \in GridCells(call.n) \ {CallCenter} : result.array[c] = call.array[c]

\* Agent.step has returned for an agent of vision 2 whose eight visible cells
\* are all occupied, one of them holding sugar.
C11_Witness ==
    /\ call.op = "Agent.step"
    /\ result.op = "Agent.step"
    /\ Cardinality(CallVisible) = 8
    /\ CallVisible \subseteq call.occupied
    /\ \E c \in CallVisible : call.array[c] > 0
    /\ result.agent.loc = CallCenter

\* The cell returned is unoccupied and visible, holds the maximum over the
\* unoccupied visible cells, and no unoccupied visible cell with that level
\* is at a smaller offset distance.
ReturnsBestClosest(r) ==
    LET free == CallVisible \ call.occupied
    IN  /\ r \in free
        /\ \A c \in free : call.array[c] <= call.array[r]
        /\ \A c \in free :
              call.array[c] = call.array[r] => OffsetDistance(r) <= OffsetDistance(c)

\* C12 as claimed: with a visible cell unoccupied, look_and_move returns an
\* unoccupied visible cell of maximum level, the closest of those, for every
\* shuffle of the rings, and never the agent's own cell.
C12_ReturnsBestClosestNeverOwn ==
    (call.op = "Agent.step" /\ result.op = "Agent.step"
        /\ CallVisible \ call.occupied # {}) =>
        /\ ReturnsBestClosest(result.agent.loc)
        /\ result.agent.loc # CallCenter

\* C12 amended: the same, and the agent's own cell is not returned when
\* vision is less than the side of the grid.
C12_ReturnsBestClosest ==
    (call.op = "Agent.step" /\ result.op = "Agent.step"
        /\ CallVisible \ call.occupied # {}) =>
        /\ ReturnsBestClosest(result.agent.loc)
        /\ call.agent.vision < call.n => result.agent.loc # CallCenter

\* Agent.step has returned where an unoccupied cell at distance 1 and one at
\* distance 2 both hold the maximum, less than the agent's own cell: the
\* agent has moved to the cell at distance 1.
C12_Witness ==
    /\ call.op = "Agent.step"
    /\ result.op = "Agent.step"
    /\ call.agent.vision = 2
    /\ Cardinality(CallVisible) = 8
    /\ \E c1 \in Ring(call.n, CallCenter, 1) \ call.occupied :
       \E c2 \in Ring(call.n, CallCenter, 2) \ call.occupied :
          /\ call.array[c1] = 1
          /\ call.array[c2] = 1
          /\ result.agent.loc = c1
    /\ call.array[CallCenter] > 1

\* The number of cells of the starting region of the call: rows times
\* columns of the box, or the whole grid.
RegionSize ==
    IF call.starting_box = <<>> THEN N * N
    ELSE call.starting_box[1] * call.starting_box[2]

\* C14: the constructor fails when num_agents exceeds the number of cells of
\* the starting region, and then no agent, no occupancy index and no
\* simulation object exist; otherwise it succeeds with exactly num_agents
\* agents on pairwise distinct cells of the starting region.
C14_ConstructionFailsOrPlaces ==
    (call.op = "Sugarscape" /\ result.op = "Sugarscape") =>
        IF call.num_agents > RegionSize
        THEN /\ result.raised = "AssertionError"
             /\ spc = "none"
             /\ agents = <<>>
             /\ agent_obj = <<>>
             /\ occupied = {}
        ELSE /\ result.raised = ""
             /\ spc = "idle"
             /\ Len(agents) = call.num_agents
             /\ DOMAIN agent_obj = Range(agents)
             /\ \A i, j \in DOMAIN agents :
                   agent_obj[agents[i]].loc = agent_obj[agents[j]].loc => i = j
             /\ \A i \in DOMAIN agents :
                   /\ agent_obj[agents[i]].loc[1] \in 0 .. starting_box(call)[1] - 1
                   /\ agent_obj[agents[i]].loc[2] \in 0 .. starting_box(call)[2] - 1
             /\ occupied = {agent_obj[agents[i]].loc : i \in DOMAIN agents}

\* The constructor has failed for a box with fewer cells than agents asked.
C14_Witness ==
    /\ call.op = "Sugarscape"
    /\ result.op = "Sugarscape"
    /\ call.starting_box # <<>>
    /\ call.num_agents = num_agents
    /\ call.num_agents > RegionSize
    /\ result.raised = "AssertionError"

\* C15 as claimed: a run ends after the ticks asked for or when the
\* population reaches zero: once the population is zero no further tick is
\* executed, so the statistics series gets no further entry and the sugar no
\* further regrowth.
C15_NoTickOnceEmpty ==
    [][(Len(agents) = 0 /\ (spc = "idle" \/ count0 = 0)) =>
          (agent_count_seq' = agent_count_seq /\ sugar_array' = sugar_array)]_vars

\* C16: a step() appends exactly one entry to the statistics series, when it
\* returns: the population after every agent of the tick was processed, which
\* it also returns; no other step touches the series, so its entries are
\* never modified or removed and it has one entry per step() made.
C16_OneEntryPerStep ==
    [][IF spc = "loop" /\ spc' = "idle"
       THEN /\ Cardinality(processed) = count0
            /\ agent_count_seq' = Append(agent_count_seq, Len(agents))
            /\ sret' = Len(agents)
            /\ agents' = agents
       ELSE agent_count_seq' = agent_count_seq]_vars

\* Two steps have returned; an agent died in the second, which returned the
\* population it left.
C16_Witness ==
    /\ spc = "idle"
    /\ Len(agent_count_seq) = 2
    /\ agent_count_seq[2] < agent_count_seq[1]
    /\ sret = agent_count_seq[2]
    /\ Len(agents) = sret

\* The square of the distance from cell c to the nearer of the peaks
\* (15, 15) and (35, 35).
NearerPeakSq(c) ==
    LET d1 == (c[1] - 15) * (c[1] - 15) + (c[2] - 15) * (c[2] - 15)
        d2 == (c[1] - 35) * (c[1] - 35) + (c[2] - 35) * (c[2] - 35)
    IN  IF d1 <= d2 THEN d1 ELSE d2

\* C17: the capacity of a cell is a tier in 0..4; it is 4 on a peak; a cell
\* at most as far from its nearer peak as the cell read has at least its
\* tier (so the tier is determined by that distance and is non-increasing in
\* it); and the first level of the cell equals its capacity.
C17_CapacityTiers ==
    (call.op = "capacity" /\ result.op = "capacity") =>
        /\ result.capacity \in 0 .. 4
        /\ NearerPeakSq(call.loc) = 0 => result.capacity = 4
        /\ \A c \in GridCells(call.n) :
              NearerPeakSq(c) <= NearerPeakSq(call.loc) =>
                  make_capacity_of(call.n)[c] >= result.capacity
        /\ result.array = result.capacity

\* The cell on the second peak has been read: tier 4, level 4.
C17_Witness ==
    /\ call.op = "capacity"
    /\ result.op = "capacity"
    /\ call.loc = <<35, 35>>
    /\ result.capacity = 4
    /\ result.array = 4

\* C18: harvest(loc) returns the level cell loc held just before the call,
\* leaves the cell at 0 and changes no other cell, no capacity, no agent and
\* not the occupancy index; harvesting the cell of the previous harvest
\* again returns 0.
C18_HarvestReadsAndZeroes ==
    [][call'.op = "harvest" =>
          /\ result'.ret = sugar_array[result'.loc]
          /\ sugar_array'[result'.loc] = 0
          /\ \A c \in Cells \ {result'.loc} : sugar_array'[c] = sugar_array[c]
          /\ capacity' = capacity
          /\ agents' = agents
          /\ agent_obj' = agent_obj
          /\ occupied' = occupied
          /\ (result.op = "harvest" /\ result.loc = result'.loc) => result'.ret = 0]_vars

\* A cell of capacity 1 has been harvested twice, all other cells never: the
\* second harvest has returned 0.
C18_Witness ==
    /\ call.op = "harvest"
    /\ call.made = 2
    /\ capacity[result.loc] = 1
    /\ result.ret = 0
    /\ sugar_array[result.loc] = 0
    /\ \A c \in Cells \ {result.loc} : sugar_array[c] = capacity[c]
    /\ Len(agents) > 0

\* C19: the grow() at the end of a step sets every cell to the minimum of
\* its level plus grow_rate and its capacity and never changes capacity; no
\* cell's level decreases, and a cell at capacity stays at capacity.
C19_GrowMonotoneSaturating ==
    [][(spc = "loop" /\ spc' = "idle") =>
          /\ capacity' = capacity
          /\ \A c \in Cells :
                /\ sugar_array'[c] =
                      (IF sugar_array[c] + grow_rate <= capacity[c]
                       THEN sugar_array[c] + grow_rate ELSE capacity[c])
                /\ sugar_array'[c] >= sugar_array[c]
                /\ sugar_array[c] = capacity[c] => sugar_array'[c] = capacity[c]]_vars

\* The locations of the listed agents other than id.
OtherLocs(id) == {agent_obj[x].loc : x \in Range(agents) \ {id}}

\* C20: in a turn of the agent loop, the occupancy index the deciding agent
\* sees (its own location removed) is exactly the set of the locations of the
\* other living agents (processed or not, or created earlier in the tick) and
\* does not hold its own location; no cell look_and_move can return to it is
\* held by another agent, and after the turn the index is those locations
\* plus, if the agent lives, the cell it moved to.
C20_DecidesOnOthersLocations ==
    [][(spc = "loop" /\ (idx' = idx + 1 \/ spc' = "KeyError")) =>
          LET id   == random_order'[idx]
              a    == agent_obj[id]
              seen == occupied \ {a.loc}
          IN  /\ spc' # "KeyError"
              /\ a.loc \in occupied
              /\ seen = OtherLocs(id)
              /\ \A newloc \in look_and_move_results(N, seen, sugar_array, a.loc, a.vision) :
                    newloc \notin OtherLocs(id)
              /\ IF id \in DOMAIN agent_obj'
                 THEN /\ agent_obj'[id].loc \notin OtherLocs(id)
                      /\ occupied' = OtherLocs(id) \cup {agent_obj'[id].loc}
                 ELSE occupied' = OtherLocs(id)]_vars

\* The second agent of a tick has taken its turn and lives, while a
\* replacement created earlier in the tick stands on a cell visible from it
\* that holds sugar.
C20_Witness ==
    /\ spc = "loop"
    /\ idx = 3
    /\ Len(random_order) = 2
    /\ random_order[2] \in Range(agents)
    /\ \E x \in Range(agents) \ Range(random_order) :
          /\ agent_obj[x].loc \in
                Visible(N, agent_obj[random_order[2]].loc, agent_obj[random_order[2]].vision)
          /\ sugar_array[agent_obj[x].loc] > 0

\* C21: throughout the move loop of a Schelling step, empty_locs lists exactly
\* the cells that are empty in the grid, each once, and its length is the
\* number of cells that were empty when the step began; so every destination
\* drawn from it is an empty cell, also one vacated earlier in the tick.
C21_EmptyListIsExact ==
    pc = "loop" =>
        /\ Range(empty_locs) = {c \in Cells : array[c] = 0}
        /\ Len(empty_locs) = Cardinality(Range(empty_locs))
        /\ Len(empty_locs) = EmptyCount(array0)
        /\ Len(empty_locs) = num_empty

\* The second mover of a tick has landed on the cell the first mover left.
C21_Witness ==
    /\ pc = "loop"
    /\ k = 3
    /\ array0[unhappy_locs[1]] # 0
    /\ array[unhappy_locs[1]] # 0
    /\ array[unhappy_locs[2]] = 0

\* The cell was unhappy in the survey of the grid a: occupied, with a fraction
\* of same-type neighbours below p.
UnhappyIn(a, c) == a[c] # 0 /\ StrictlyBelow(SurveyedFrac(a, c), p)

\* The sources the loop of the current step has still to move.
SourcesLeft == {unhappy_locs'[x] : x \in k + 1 .. Len(unhappy_locs')}

\* C22: the movers of a Schelling tick are fixed by the survey taken at its
\* start.  Every iteration of the loop moves the agent of a cell that was
\* unhappy in that survey, which has not moved yet in the tick, satisfied by
\* now or not, to an empty cell that is no source to come (so no agent moves
\* twice); when the step returns every cell unhappy in the survey has been a
\* source once, and every cell that was occupied and not unhappy holds the
\* value it had.
C22_MoversFixedBySurvey ==
    [][/\ (pc = "loop" /\ k' = k + 1) =>
             LET source == unhappy_locs'[k]
             IN  /\ UnhappyIn(array0, source)
                 /\ \A x \in 1 .. k - 1 : unhappy_locs'[x] # source
                 /\ array[source] = array0[source]
                 /\ \E dest \in Cells \ SourcesLeft :
                       /\ array[dest] = 0
                       /\ array' = [array EXCEPT ![dest] = array0[source],
                                                 ![source] = 0]
       /\ (pc = "loop" /\ pc' = "idle") =>
             /\ Range(unhappy_locs) = {c \in Cells : UnhappyIn(array0, c)}
             /\ Len(unhappy_locs) = Cardinality(Range(unhappy_locs))
             /\ k = Len(unhappy_locs) + 1
             /\ \A c \in Cells :
                   (array0[c] # 0 /\ ~UnhappyIn(array0, c)) => array[c] = array0[c]
      ]_vars

\* The second mover of a tick was unhappy in the survey and satisfied after
\* the first move, and has moved; a cell that was not unhappy in the survey
\* is occupied.
C22_Witness ==
    /\ pc = "loop"
    /\ k = 3
    /\ \E c \in Cells : array0[c] # 0 /\ ~UnhappyIn(array0, c)
    /\ \E d1, d2 \in Cells :
          LET s1 == unhappy_locs[1]
              s2 == unhappy_locs[2]
              a1 == MoveAgent(array0, s1, d1)
          IN  /\ array0[d1] = 0
              /\ a1[d2] = 0
              /\ array = MoveAgent(a1, s2, d2)
              /\ UnhappyIn(array0, s2)
              /\ ~UnhappyIn(a1, s2)

\* Agents on the list that the loop of the current tick does not visit: the
\* replacements created in this tick.
Replacements == Range(agents) \ Range(random_order)

\* C23: in every Sugarscape tick the loop visits a permutation of the agents
\* that were on the list when the tick began: each turn takes an agent not
\* yet processed in the tick and still on the list, removals included; a
\* replacement created in the tick is never visited and is left as created
\* (age 0, its initial sugar) to the end of the tick; when the loop ends the
\* agents processed are exactly those of the permutation, each once.
C23_EachAgentOnce ==
    [][/\ (spc = "idle" /\ spc' = "loop") =>
             /\ random_order' = agents
             /\ processed' = {}
       /\ (spc = "loop" /\ idx' = idx + 1) =>
             LET id == random_order'[idx]
             IN  /\ id \notin processed
                 /\ id \in Range(agents)
                 /\ processed' = processed \cup {id}
                 /\ Range(random_order') = Range(random_order)
                 /\ \A x \in Range(agents) \ {id} :
                       x \in Range(agents') /\ agent_obj'[x] = agent_obj[x]
       /\ (spc = "add_agent" /\ spc' = "loop") =>
             /\ Len(agents') = Len(agents) + 1
             /\ agents'[Len(agents')] \notin Range(random_order) \cup Range(agents)
             /\ agent_obj'[agents'[Len(agents')]].age = 0
             /\ \A x \in Range(agents) : agent_obj'[x] = agent_obj[x]
       /\ (spc = "loop" /\ spc' = "idle") =>
             /\ processed = Range(random_order)
             /\ Cardinality(processed) = Len(random_order)
             /\ Len(random_order) = count0
             /\ \A x \in Replacements :
                   /\ agent_obj[x].age = 0
                   /\ agent_obj[x].sugar \in uniform(min_sugar, max_sugar)
             /\ \A x, y \in DOMAIN agents : agents[x] = agents[y] => x = y
      ]_vars

\* The loop of a tick has ended after processing its two agents in the order
\* opposite to the list's: the first one processed died and was replaced, the
\* other one lives, and the replacement has not been processed.
C23_Witness ==
    /\ spc = "loop"
    /\ Len(random_order) = 2
    /\ idx = 3
    /\ random_order[1] > random_order[2]
    /\ processed = Range(random_order)
    /\ random_order[1] \notin Range(agents)
    /\ random_order[2] \in Range(agents)
    /\ Replacements # {}
    /\ \A x \in Replacements : agent_obj[x].age = 0

\* look_and_move can return the cell to the agent of the call before its next
\* step, for some shuffle of the rings.
IsNextLoc(newloc) ==
    \E offs \in make_visible_locs_of[LifeSoFar.agent.vision] :
        look_and_move(call.n, call.occupied, LifeSoFar.array, LifeSoFar.agent.loc,
                      offs) = newloc

\* C24: one call of Agent.step sets loc to a cell look_and_move returns, sets
\* sugar to the old sugar plus the sugar read at that cell minus the
\* metabolism, adds exactly 1 to age, zeroes that cell and leaves vision,
\* metabolism and lifespan as they are; so the age is the number of calls
\* made on the agent, which keeps the vision, metabolism and lifespan it was
\* created with.
C24_AgentStepEffect ==
    [][result' # result =>
          /\ LET newloc == result'.agent.loc
             IN /\ IsNextLoc(newloc)
                /\ result'.agent =
                      [loc |-> newloc,
                       age |-> LifeSoFar.agent.age + 1,
                       vision |-> LifeSoFar.agent.vision,
                       metabolism |-> LifeSoFar.agent.metabolism,
                       lifespan |-> LifeSoFar.agent.lifespan,
                       sugar |-> <<LifeSoFar.agent.sugar[1]
                                      + Resolution * LifeSoFar.array[newloc]
                                      - LifeSoFar.agent.metabolism[1], Resolution>>]
                /\ result'.array = [LifeSoFar.array EXCEPT ![newloc] = 0]
          /\ result'.calls = LifeSoFar.calls + 1
          /\ result'.agent.age = call.agent.age + result'.calls
          /\ result'.agent.vision = call.agent.vision
          /\ result'.agent.metabolism = call.agent.metabolism
          /\ result'.agent.lifespan = call.agent.lifespan
      ]_vars

\* Agent.step has been called MaxCalls times on an agent of a metabolism that
\* is no whole number; it has moved away from its first cell and has harvested
\* some sugar on its way.
C24_Witness ==
    /\ result.op = "Agent.step"
    /\ result.calls = MaxCalls
    /\ call.agent.metabolism[1] % Resolution # 0
    /\ result.agent.age = MaxCalls
    /\ result.agent.loc # call.agent.loc
    /\ result.agent.sugar[1] > call.agent.sugar[1] - MaxCalls * call.agent.metabolism[1]
    /\ result.array # call.array

\* The sugar the turn being taken harvests: what the array loses.
Harvested ==
    SumOver([c \in Cells |-> sugar_array[c] - sugar_array'[c]], Cells)

\* C25: the death thresholds are strict.  After its turn an agent stays on
\* the list, with its cell put back into the occupancy index, exactly when its
\* sugar is at least 0 and its age at most its lifespan: sugar 0 is not
\* starving and an age equal to the lifespan is not old.  So every listed
\* agent has an age of at most its lifespan, and an agent dies of old age in
\* the first tick that takes its age above it.
C25_StrictThresholds ==
    [][(spc = "loop" /\ idx' = idx + 1 /\ spc' # "KeyError") =>
          LET id    == random_order'[idx]
              a     == agent_obj[id]
              sugar == a.sugar[1] + Resolution * Harvested - a.metabolism[1]
              age   == a.age + 1
          IN  /\ a.age * Resolution <= a.lifespan[1]
              /\ id \in Range(agents') <=>
                    (sugar >= 0 /\ age * Resolution <= a.lifespan[1])
              /\ id \in Range(agents') =>
                    /\ agent_obj'[id].sugar = <<sugar, Resolution>>
                    /\ agent_obj'[id].age = age
                    /\ agent_obj'[id].loc \in occupied'
      ]_vars

\* An agent has taken its turn, which left it with sugar 0 at the age of its
\* lifespan; it is on the list and its cell is in the occupancy index.
C25_Witness ==
    /\ spc = "loop"
    /\ \E id \in processed \cap Range(agents) :
          /\ agent_obj[id].sugar = Float(0)
          /\ Float(agent_obj[id].age) = agent_obj[id].lifespan
          /\ agent_obj[id].loc \in occupied

\* The cell new is old moved by d along one axis, wrapped on a grid of side n.
AxisMove(n, old, new, d) ==
    \/ new = <<(old[1] + d) % n, old[2]>>
    \/ new = <<(old[1] - d) % n, old[2]>>
    \/ new = <<old[1], (old[2] + d) % n>>
    \/ new = <<old[1], (old[2] - d) % n>>

\* Every agent stands on a cell of the grid, and the occupancy index holds
\* cells of the grid only.
LocationsInGrid ==
    /\ \A id \in DOMAIN agent_obj : agent_obj[id].loc \in Cells
    /\ occupied \subseteq Cells

\* Agent.step called on an agent has left it on a cell of the grid, its old
\* one or the old one moved along one axis by at most its vision.
StepMoveIsAxisAligned ==
    result.op = "Agent.step" =>
        LET old == call.agent.loc
            new == result.agent.loc
        IN  /\ old \in (0 .. call.n - 1) \X (0 .. call.n - 1)
            /\ new \in (0 .. call.n - 1) \X (0 .. call.n - 1)
            /\ \/ new = old
               \/ \E d \in 1 .. call.agent.vision : AxisMove(call.n, old, new, d)
            /\ new[1] = old[1] \/ new[2] = old[2]

\* In any step of a simulation, an agent alive before and after it is on its
\* old cell or on the old one moved along one axis by at most its vision.
TurnMoveIsAxisAligned ==
    \A id \in DOMAIN agent_obj \cap DOMAIN agent_obj' :
        LET old == agent_obj[id].loc
            new == agent_obj'[id].loc
        IN  /\ \/ new = old
               \/ \E d \in 1 .. agent_obj[id].vision : AxisMove(N, old, new, d)
            /\ new[1] = old[1] \/ new[2] = old[2]

\* C26: the location of an agent after its step is either its old location
\* or the old location moved along one axis by a distance d,
\* 1 <= d <= vision, modulo n: never a diagonal move, never further than the
\* vision; and in every state reached from a constructor called with a
\* starting box inside the grid, through placements by make_agents, moves
\* and replacements by add_agent, every agent location is a cell of
\* [0,n) x [0,n).
C26_AxisAlignedMove ==
    /\ [](LocationsInGrid /\ StepMoveIsAxisAligned)
    /\ [][TurnMoveIsAxisAligned]_vars

\* A Sugarscape was constructed with the first row of the grid as starting
\* box, one step() has returned, and an agent that has taken its turn stands
\* outside that row: it has moved along the first axis.
C26_Witness ==
    /\ call.op = "Sugarscape"
    /\ call.starting_box = <<1, N>>
    /\ spc = "idle"
    /\ Len(agent_count_seq) = 1
    /\ \E id \in DOMAIN agent_obj :
          /\ agent_obj[id].age = 1
          /\ agent_obj[id].loc[1] # 0
          /\ agent_obj[id].loc \in occupied

\* C27: when step() calls add_agent after a death, the dead agent's cell has
\* been taken out of the occupancy index and not put back, so at least one
\* of the n*n cells is outside it and some draw of random_loc is accepted;
\* the cell add_agent gets is outside the index, and it is the only cell the
\* index gains.
C27_ReplacementFindsCell ==
    [][/\ (spc = "loop" /\ spc' = "add_agent") =>
             LET dead == agent_obj[random_order'[idx]]
             IN  /\ occupied' = occupied \ {dead.loc}
                 /\ dead.loc \notin occupied'
                 /\ Cardinality(occupied') < N * N
                 /\ \E loc \in Cells : loc \notin occupied'
       /\ (spc = "add_agent" /\ spc' = "loop") =>
             LET loc == agent_obj'[agents'[Len(agents')]].loc
             IN  /\ loc \in Cells
                 /\ loc \notin occupied
                 /\ occupied' = occupied \cup {loc}
      ]_vars

\* add_agent has returned in the first turn of a tick: the agent processed
\* died, a replacement is on the list and the index has a cell per agent.
C27_Witness ==
    /\ spc = "loop"
    /\ replace
    /\ idx = 2
    /\ Len(agents) = count0
    /\ random_order[1] \notin Range(agents)
    /\ Cardinality(occupied) = Len(agents)
    /\ Replacements # {}

\* The series never increases from one entry to the next.
NonIncreasing(s) == \A x \in 1 .. Len(s) - 1 : s[x] >= s[x + 1]

\* C28: without replacement no step of a run adds an agent to the list, so
\* the population after a step() is at most the one before it and the series
\* never increases; once the list is empty it stays empty with an empty
\* occupancy index, and a step() made on it appends 0 and changes nothing
\* else but the sugar, which grows back.
C28_PopulationNeverGrows ==
    [][~replace =>
          /\ Range(agents') \subseteq Range(agents)
          /\ Len(agents') <= Len(agents)
          /\ Len(agents') <= count0'
          /\ NonIncreasing(agent_count_seq')
          /\ (Len(agent_count_seq') > 0 /\ spc' = "idle") =>
                agent_count_seq'[Len(agent_count_seq')] = Len(agents')
          /\ Len(agents) = 0 =>
                /\ occupied = {} /\ occupied' = {}
                /\ agents' = <<>>
                /\ agent_obj' = agent_obj
                /\ IF spc = "loop" /\ spc' = "idle"
                   THEN /\ agent_count_seq' = Append(agent_count_seq, 0)
                        /\ sret' = 0
                        /\ sugar_array' =
                              [c \in Cells |->
                                  IF sugar_array[c] + grow_rate <= capacity[c]
                                  THEN sugar_array[c] + grow_rate ELSE capacity[c]]
                   ELSE /\ agent_count_seq' = agent_count_seq
                        /\ sugar_array' = sugar_array
      ]_vars

\* The population went from 2 to 1 in the first step and to 0 in the second,
\* and a third step(), made on the empty population, has returned: the series
\* is 1, 0, 0.
C28_Witness ==
    /\ ~replace
    /\ spc = "idle"
    /\ Len(agent_count_seq) = 3
    /\ count0 = 0
    /\ agent_count_seq[1] = 1
    /\ agent_count_seq[3] = 0
    /\ agents = <<>>
    /\ occupied = {}

\* Some occupied cell of grid a is strictly below the threshold.
SomeUnhappy(a) == ~AllSatisfied(a)

\* C29: a step() called on a grid with no empty cell writes no cell.  If some
\* cell is unhappy it does not return: it raises ValueError at the first draw
\* of a destination, before any move; if none is unhappy it returns normally.
C29_FullGridStep ==
    EmptyCount(array0) = 0 =>
        /\ array = array0
        /\ pc = "loop" => (k = 1 /\ num_empty = 0 /\ empty_locs = <<>>)
        /\ pc = "raised" =>
              (SomeUnhappy(array0) /\ err = "ValueError" /\ ret = NoRet)
        /\ (pc = "idle" /\ ret # NoRet) => (~SomeUnhappy(array0) /\ err = "")
        /\ (SomeUnhappy(array0) /\ pc = "loop") => Len(unhappy_locs) > 0

\* A step() on a grid without empty cell, holding both types, has raised.
C29_Witness ==
    /\ EmptyCount(array0) = 0
    /\ pc = "raised"
    /\ err = "ValueError"
    /\ array = array0
    /\ TypeCount(array, 1) > 0
    /\ TypeCount(array, 2) > 0

====
